---- MODULE Spec2Model ----
(***************************************************************************)
(* Model of terraform_parser.py: the TerraformListener that interprets a   *)
(* parsed configuration document, and the terraform_apply and              *)
(* terraform_destroy lifecycles that drive the provisioning API and the    *)
(* terraform.tfstate file.                                                 *)
(*                                                                         *)
(* Text is a sequence of one-character strings, so that strip('"'),        *)
(* startswith("var."), split(".") and str() are computed as Python         *)
(* computes them.  None and the empty dict/str are both the empty          *)
(* function << >>: the program only ever tests them with `not x`.          *)
(***************************************************************************)
EXTENDS Integers, Sequences, FiniteSets, TLC

(***************************************************************************)
(* Bounds of the model.                                                    *)
(***************************************************************************)
\* number of invocations of the command line in one behaviour
MaxRuns == 3
\* number of "not ready yet" reads that are recorded in the call trace
MaxPolls == 1
\* identifier the provisioning API hands out first (two digits are reached)
FirstId == 9

(***************************************************************************)
(* Text helpers: Python's str methods used by the program.                 *)
(***************************************************************************)
QUOTE == "\""

None == << >>

\* s.strip('"'): drop every leading and every trailing quote character
RECURSIVE LStrip(_)
LStrip(s) ==
    IF s # << >> /\ Head(s) = QUOTE THEN LStrip(Tail(s)) ELSE s

RECURSIVE RStrip(_)
RStrip(s) ==
    IF s # << >> /\ s[Len(s)] = QUOTE THEN RStrip(SubSeq(s, 1, Len(s) - 1)) ELSE s

Strip(s) == RStrip(LStrip(s))

\* s.startswith(p)
StartsWith(s, p) == Len(s) >= Len(p) /\ SubSeq(s, 1, Len(p)) = p

\* s.split("."): the list of segments between the dots
RECURSIVE SplitDot(_, _)
SplitDot(s, cur) ==
    IF s = << >> THEN << cur >>
    ELSE IF Head(s) = "." THEN << cur >> \o SplitDot(Tail(s), << >>)
    ELSE SplitDot(Tail(s), Append(cur, Head(s)))

Split(s) == SplitDot(s, << >>)

\* str(n) for a non-negative integer: its decimal digits
Digit(d) == CASE d = 0 -> "0" [] d = 1 -> "1" [] d = 2 -> "2" [] d = 3 -> "3"
              [] d = 4 -> "4" [] d = 5 -> "5" [] d = 6 -> "6" [] d = 7 -> "7"
              [] d = 8 -> "8" [] d = 9 -> "9"

RECURSIVE Str(_)
Str(n) == IF n < 10 THEN << Digit(n) >> ELSE Append(Str(n \div 10), Digit(n % 10))

\* mutant: a key that is already present keeps its value (dict.setdefault)
DictSet_KeepFirst(d, k, v) ==
    [x \in (DOMAIN d) \cup {k} |-> IF x \in DOMAIN d THEN d[x] ELSE v]

\* d[k] = v on a Python dict
DictSet(d, k, v) == [x \in (DOMAIN d) \cup {k} |-> IF x = k THEN v ELSE d[x]]

(***************************************************************************)
(* String constants of the program.                                        *)
(***************************************************************************)
DIGITALOCEAN == <<"d", "i", "g", "i", "t", "a", "l", "o", "c", "e", "a", "n">>
DIGITALOCEAN_DROPLET ==
    <<"d", "i", "g", "i", "t", "a", "l", "o", "c", "e", "a", "n", "_",
      "d", "r", "o", "p", "l", "e", "t">>
VAR_PREFIX == <<"v", "a", "r", ".">>
MANAGED == <<"m", "a", "n", "a", "g", "e", "d">>
CUSTOM == <<"c", "u", "s", "t", "o", "m">>
WEB == <<"w", "e", "b">>

(***************************************************************************)
(* Input documents: what the parser hands to the listener.  A block is its *)
(* kind, the STRING tokens of its header (quotes included, as getText()    *)
(* returns them) and the keyValue() list of its body.                      *)
(***************************************************************************)
Quoted(s) == << QUOTE >> \o s \o << QUOTE >>
VarRef(n) == VAR_PREFIX \o n
KV(k, e) == [IDENTIFIER |-> k, expr |-> e]
Variable(n, body) == [kind |-> "variable", STRING |-> << Quoted(n) >>, body |-> body]
Provider(n, body) == [kind |-> "provider", STRING |-> << Quoted(n) >>, body |-> body]
Resource(t, n, body) ==
    [kind |-> "resource", STRING |-> << Quoted(t), Quoted(n) >>, body |-> body]

T_token == <<"t", "o", "k", "e", "n">>
T_other == <<"o", "t", "h", "e", "r">>
T_abc123 == <<"a", "b", "c", "1", "2", "3">>
T_xyz == <<"x", "y", "z">>
T_aws == <<"a", "w", "s">>
T_aws_instance == <<"a", "w", "s", "_", "i", "n", "s", "t", "a", "n", "c", "e">>
T_web == <<"w", "e", "b">>
T_x == <<"x">>
T_y == <<"y">>
T_nyc3 == <<"n", "y", "c", "3">>
T_size == <<"s", "-", "1", "v", "c", "p", "u">>
T_ubuntu == <<"u", "b", "u", "n", "t", "u">>
T_text == <<"t", "e", "x", "t">>

DropletBody(n) ==
    << KV("name", Quoted(n)), KV("region", Quoted(T_nyc3)),
       KV("size", Quoted(T_size)), KV("image", Quoted(T_ubuntu)) >>

\* the scenario of the specification: token by variable reference
DocScenario ==
    << Variable(T_token, << KV("default", Quoted(T_abc123)) >>),
       Provider(DIGITALOCEAN, << KV("token", VarRef(T_token)) >>),
       Resource(DIGITALOCEAN_DROPLET, T_web, DropletBody(T_x)) >>

\* a quoted literal token; a resource block of another type after the droplet
DocLiteral ==
    << Provider(DIGITALOCEAN, << KV("token", Quoted(T_xyz)) >>),
       Resource(DIGITALOCEAN_DROPLET, T_web, DropletBody(T_y)),
       Resource(T_aws_instance, T_web,
                << KV("ami", Quoted(T_text)), KV("name", Quoted(T_text)) >>) >>

\* the provider block declares no token key
DocNoToken ==
    << Provider(DIGITALOCEAN, << KV("region", Quoted(T_nyc3)) >>),
       Resource(DIGITALOCEAN_DROPLET, T_web, DropletBody(T_x)) >>

\* an unsupported provider, after a variable and before the resource
DocAws ==
    << Variable(T_token, << KV("default", Quoted(T_abc123)) >>),
       Provider(T_aws, << KV("token", VarRef(T_token)) >>),
       Resource(DIGITALOCEAN_DROPLET, T_web, DropletBody(T_x)) >>

\* an unsupported provider without a token key
DocAwsNoToken ==
    << Provider(T_aws, << >>),
       Resource(DIGITALOCEAN_DROPLET, T_web, DropletBody(T_x)) >>

\* the referenced variable is declared, but without a default key
DocNoDefault ==
    << Variable(T_token, << KV("description", Quoted(T_text)) >>),
       Provider(DIGITALOCEAN, << KV("token", VarRef(T_token)) >>),
       Resource(DIGITALOCEAN_DROPLET, T_web, DropletBody(T_x)) >>

\* the referenced variable is not declared at all
DocUndeclared ==
    << Variable(T_token, << KV("default", Quoted(T_abc123)) >>),
       Provider(DIGITALOCEAN, << KV("token", VarRef(T_other)) >>),
       Resource(DIGITALOCEAN_DROPLET, T_web, DropletBody(T_x)) >>

\* only a resource block of another type
DocOtherResource ==
    << Provider(DIGITALOCEAN, << KV("token", Quoted(T_xyz)) >>),
       Resource(T_aws_instance, T_web, DropletBody(T_x)) >>

\* every declaration more than once, in one block and in two blocks, with
\* different values
DocDuplicates ==
    << Variable(T_token, << KV("default", Quoted(T_abc123)) >>),
       Provider(DIGITALOCEAN, << KV("token", Quoted(T_abc123)),
                                 KV("token", Quoted(T_text)) >>),
       Variable(T_token, << KV("default", Quoted(T_text)),
                            KV("default", Quoted(T_xyz)) >>),
       Resource(DIGITALOCEAN_DROPLET, T_web,
                << KV("name", Quoted(T_x)) >> \o DropletBody(T_y)),
       Provider(DIGITALOCEAN, << KV("token", VarRef(T_token)) >>),
       Resource(DIGITALOCEAN_DROPLET, T_y, << KV("region", Quoted(T_text)) >>) >>

\* neither a token nor a resource
DocNothing ==
    << Provider(DIGITALOCEAN, << >>) >>

\* an undefined token variable and no matching resource
DocUndefinedNoResource ==
    << Provider(DIGITALOCEAN, << KV("token", VarRef(T_other)) >>),
       Resource(T_aws_instance, T_web, DropletBody(T_x)) >>

\* the droplet block lacks the image attribute
DocMissingAttr ==
    << Provider(DIGITALOCEAN, << KV("token", Quoted(T_xyz)) >>),
       Resource(DIGITALOCEAN_DROPLET, T_web,
                << KV("name", Quoted(T_x)), KV("region", Quoted(T_nyc3)),
                   KV("size", Quoted(T_size)) >>) >>

\* the droplet block lacks one of name, region and size
DocWithout(k) ==
    << Provider(DIGITALOCEAN, << KV("token", Quoted(T_xyz)) >>),
       Resource(DIGITALOCEAN_DROPLET, T_web,
                SelectSeq(DropletBody(T_x), LAMBDA kv : kv.IDENTIFIER # k)) >>

\* the droplet block has the image attribute only
DocImageOnly ==
    << Provider(DIGITALOCEAN, << KV("token", Quoted(T_xyz)) >>),
       Resource(DIGITALOCEAN_DROPLET, T_web, << KV("image", Quoted(T_ubuntu)) >>) >>

DocsWithout == { DocWithout(k) : k \in {"name", "region", "size"} } \cup { DocImageOnly }

Docs == DocsWithout \cup
        { DocScenario, DocLiteral, DocNoToken, DocAws, DocAwsNoToken, DocNoDefault,
          DocUndeclared, DocOtherResource, DocDuplicates, DocNothing,
          DocUndefinedNoResource, DocMissingAttr }

(***************************************************************************)
(* TerraformListener                                                       *)
(***************************************************************************)
\* TerraformListener.__init__
TerraformListener ==
    [variables |-> << >>, provider_token_expr |-> None, droplet_config |-> << >>]

\* mutant: the value of every key is taken for the default
RECURSIVE VariableLoop_AnyKey(_, _, _)
VariableLoop_AnyKey(vars, var_name, body) ==
    IF body = << >> THEN vars
    ELSE VariableLoop_AnyKey(DictSet(vars, var_name, Strip(Head(body).expr)),
                             var_name, Tail(body))

\* enterVariable: the loop over the body, in order
RECURSIVE VariableLoop(_, _, _)
VariableLoop(vars, var_name, body) ==
    IF body = << >> THEN vars
    ELSE LET kv == Head(body)
             next == IF kv.IDENTIFIER = "default"
                     THEN DictSet(vars, var_name, Strip(kv.expr))
                     ELSE vars
         IN VariableLoop(next, var_name, Tail(body))

enterVariable(self, ctx) ==
    LET var_name == Strip(ctx.STRING[1])
    IN [self EXCEPT !.variables = VariableLoop(self.variables, var_name, ctx.body)]

\* enterProvider: the loop over the body, in order
RECURSIVE ProviderLoop(_, _)
ProviderLoop(expr0, body) ==
    IF body = << >> THEN expr0
    ELSE LET kv == Head(body)
         IN ProviderLoop(IF kv.IDENTIFIER = "token" THEN kv.expr ELSE expr0,
                         Tail(body))

\* mutant: the provider name is not checked
enterProvider_NoCheck(self, ctx) ==
    [raised |-> FALSE, error |-> "",
     self |-> [self EXCEPT !.provider_token_expr =
                  ProviderLoop(self.provider_token_expr, ctx.body)]]

\* enterProvider: raises for any provider but digitalocean
enterProvider(self, ctx) ==
    LET provider_name == Strip(ctx.STRING[1])
    IN IF provider_name # DIGITALOCEAN
       THEN [raised |-> TRUE, error |-> "UnsupportedProvider", self |-> self]
       ELSE [raised |-> FALSE, error |-> "",
             self |-> [self EXCEPT !.provider_token_expr =
                          ProviderLoop(self.provider_token_expr, ctx.body)]]

\* enterResource: the loop over the body, in order
RECURSIVE ResourceLoop(_, _)
ResourceLoop(config, body) ==
    IF body = << >> THEN config
    ELSE LET kv == Head(body)
         IN ResourceLoop(DictSet(config, kv.IDENTIFIER, Strip(kv.expr)), Tail(body))

\* mutant: the resource type is not checked
enterResource_NoTypeCheck(self, ctx) ==
    [self EXCEPT !.droplet_config = ResourceLoop(self.droplet_config, ctx.body)]

\* enterResource: blocks of other types are skipped
enterResource(self, ctx) ==
    LET type_ == Strip(ctx.STRING[1])
    IN IF type_ # DIGITALOCEAN_DROPLET
       THEN self
       ELSE [self EXCEPT !.droplet_config = ResourceLoop(self.droplet_config, ctx.body)]

\* mutant: the check for a missing token expression is left out
resolve_token_NoCheck(self) ==
    IF StartsWith(self.provider_token_expr, VAR_PREFIX)
    THEN LET var_name == Split(self.provider_token_expr)[2]
         IN IF var_name \in DOMAIN self.variables
            THEN [raised |-> FALSE, error |-> "", name |-> << >>,
                  value |-> self.variables[var_name]]
            ELSE [raised |-> TRUE, error |-> "UndefinedVariable",
                  name |-> var_name, value |-> << >>]
    ELSE [raised |-> FALSE, error |-> "", name |-> << >>,
          value |-> Strip(self.provider_token_expr)]

\* resolve_token: the value returned, or the exception raised
resolve_token(self) ==
    IF self.provider_token_expr = << >>
    THEN [raised |-> TRUE, error |-> "NoToken", name |-> << >>, value |-> << >>]
    ELSE IF StartsWith(self.provider_token_expr, VAR_PREFIX)
         THEN LET var_name == Split(self.provider_token_expr)[2]
              IN IF var_name \in DOMAIN self.variables
                 THEN [raised |-> FALSE, error |-> "", name |-> << >>,
                       value |-> self.variables[var_name]]
                 ELSE [raised |-> TRUE, error |-> "UndefinedVariable",
                       name |-> var_name, value |-> << >>]
         ELSE [raised |-> FALSE, error |-> "", name |-> << >>,
               value |-> Strip(self.provider_token_expr)]

(***************************************************************************)
(* create_droplet, save_state_file, load_state_file: the pure parts        *)
(***************************************************************************)
RequiredKeys == << "name", "region", "size", "image" >>

\* the first of name, region, size, image that config lacks (KeyError), or ""
RECURSIVE FirstMissing(_, _)
FirstMissing(config, keys) ==
    IF keys = << >> THEN ""
    ELSE IF Head(keys) \notin DOMAIN config THEN Head(keys)
    ELSE FirstMissing(config, Tail(keys))

\* create_droplet: the request body
payload(config) ==
    [name |-> config["name"], region |-> config["region"],
     size |-> config["size"], image |-> config["image"],
     ssh_keys |-> << >>, backups |-> FALSE, ipv6 |-> FALSE, user_data |-> None,
     private_networking |-> None, volumes |-> None, tags |-> << >>]

\* mutant: the public addresses are collected in reverse order
RECURSIVE public_ips_Reversed(_)
public_ips_Reversed(networks) ==
    IF networks = << >> THEN << >>
    ELSE IF Head(networks).type = "public"
         THEN public_ips_Reversed(Tail(networks)) \o << Head(networks).ip_address >>
         ELSE public_ips_Reversed(Tail(networks))

\* create_droplet: the public addresses of a read response, in order
RECURSIVE public_ips(_)
public_ips(networks) ==
    IF networks = << >> THEN << >>
    ELSE IF Head(networks).type = "public"
         THEN << Head(networks).ip_address >> \o public_ips(Tail(networks))
         ELSE public_ips(Tail(networks))

\* save_state_file: the document written to terraform.tfstate
save_state_file(droplet_config, droplet_id, ip) ==
    [version |-> 4,
     terraform_version |-> CUSTOM,
     resources |-> <<
        [mode |-> MANAGED,
         type |-> DIGITALOCEAN_DROPLET,
         name |-> WEB,
         provider |-> DIGITALOCEAN,
         instances |-> <<
            [attributes |->
                [id |-> Str(droplet_id),
                 name |-> droplet_config["name"],
                 region |-> droplet_config["region"],
                 size |-> droplet_config["size"],
                 image |-> droplet_config["image"],
                 ipv4_address |-> ip]] >>] >>]

\* mutant: the loader returns the logical name of the resource entry
RECURSIVE LoadLoop_LogicalName(_)
LoadLoop_LogicalName(resources) ==
    IF resources = << >> THEN None
    ELSE IF Head(resources).type = DIGITALOCEAN_DROPLET
         THEN LET attrs == Head(resources).instances[1].attributes
              IN [id |-> attrs.id, name |-> Head(resources).name, ip |-> attrs.ipv4_address]
         ELSE LoadLoop_LogicalName(Tail(resources))

\* load_state_file: the loop over state["resources"]
RECURSIVE LoadLoop(_)
LoadLoop(resources) ==
    IF resources = << >> THEN None
    ELSE IF Head(resources).type = DIGITALOCEAN_DROPLET
         THEN LET attrs == Head(resources).instances[1].attributes
              IN [id |-> attrs.id, name |-> attrs.name, ip |-> attrs.ipv4_address]
         ELSE LoadLoop(Tail(resources))

\* mutant: the FileNotFoundError of a missing state file is not caught
load_state_file_NoCatch(file) ==
    CASE file.status = "absent" -> [raised |-> TRUE, value |-> None]
      [] file.status = "corrupt" -> [raised |-> TRUE, value |-> None]
      [] file.status = "ok" -> [raised |-> FALSE, value |-> LoadLoop(file.json.resources)]

\* load_state_file: the value returned, or the exception that escapes
load_state_file(file) ==
    CASE file.status = "absent" -> [raised |-> FALSE, value |-> None]
      [] file.status = "corrupt" -> [raised |-> TRUE, value |-> None]
      [] file.status = "ok" -> [raised |-> FALSE, value |-> LoadLoop(file.json.resources)]

(***************************************************************************)
(* The provisioning API and the file system, as the program sees them.     *)
(***************************************************************************)
IP_A == <<"1", "0", ".", "0", ".", "0", ".", "1">>
IP_B == <<"1", "0", ".", "0", ".", "0", ".", "2">>
IP_PRIVATE == <<"1", "9", "2", ".", "1", "6", "8", ".", "0", ".", "9">>

Net(t, a) == [type |-> t, ip_address |-> a]

\* droplet["networks"]["v4"] of a read response without a public address
NotReadyNetworks == { << >>, << Net("private", IP_PRIVATE) >> }

\* droplet["networks"]["v4"] of a read response with a public address
ReadyNetworks == { << Net("private", IP_PRIVATE), Net("public", IP_A) >>,
                   << Net("public", IP_B), Net("public", IP_A) >> }

AbsentFile == [status |-> "absent", json |-> << >>]
CorruptFile == [status |-> "corrupt", json |-> << >>]

\* The encodings the standard output of an invocation can have: "utf-8", and
\* "ascii" for every encoding without the character U+2713 (cp1252 and
\* latin-1 behave the same way).
StdoutEncodings == {"utf-8", "ascii"}

\* print of a line that starts with "[" U+2713 "]" (lines 130, 163, 184, 185,
\* 215, 219): TRUE when the line is written, FALSE when print raises
\* UnicodeEncodeError.  Every other line the program prints is ASCII for the
\* documents of Docs and is written under both encodings.
PrintsCheckMark(encoding) == encoding = "utf-8"

(***************************************************************************)
(* State                                                                   *)
(***************************************************************************)
VARIABLES
    runs,        \* invocations started so far
    op,          \* "none", "apply" or "destroy": the running invocation
    pc,          \* position of the running invocation
    doc,         \* the parsed terraform_file of the running invocation
    pos,         \* next block of doc the tree walker visits
    listener,    \* the TerraformListener of the running invocation
    token,       \* local: the resolved token
    droplet_id,  \* local of create_droplet: the identifier returned by POST
    ip,          \* local of create_droplet: the address found by the poll
    state_info,  \* local of terraform_destroy: what load_state_file returned
    err,         \* the exception that ended the invocation
    stateFile,   \* terraform.tfstate
    remote,      \* identifiers of the droplets that exist at the provider
    nextId,      \* identifier the provider gives to the next droplet
    trace,       \* calls of the running invocation, in order
    pre,         \* stateFile and remote when the running invocation started
    prev,        \* summary of the invocation before the running one
    saved,       \* arguments of the last save_state_file that wrote the file
    tick,        \* parity of the number of reads the polling loop has issued
    stdout       \* sys.stdout.encoding of the running invocation

vars == << runs, op, pc, doc, pos, listener, token, droplet_id, ip, state_info,
           err, stateFile, remote, nextId, trace, pre, prev, saved, tick,
           stdout >>

locals == << token, droplet_id, ip, state_info, tick >>
world == << stateFile, remote, nextId, saved >>
frame == << runs, op, doc, pre, prev, stdout >>

NoError == [kind |-> "", name |-> << >>]
Error(k) == [kind |-> k, name |-> << >>]

Ev(e, ok, auth, req, ret) == [ev |-> e, ok |-> ok, auth |-> auth, req |-> req, ret |-> ret]

Finished == pc \in {"idle", "done", "failed"}

Init ==
    /\ runs = 0
    /\ op = "none"
    /\ pc = "idle"
    /\ doc = << >>
    /\ pos = 1
    /\ listener = TerraformListener
    /\ token = << >>
    /\ droplet_id = 0
    /\ ip = << >>
    /\ state_info = None
    /\ err = NoError
    /\ stateFile = AbsentFile
    /\ remote = {}
    /\ nextId = FirstId
    /\ trace = << >>
    /\ pre = [stateFile |-> AbsentFile, remote |-> {}]
    /\ prev = [op |-> "none", doc |-> << >>, pc |-> "idle", droplet_id |-> 0,
               err |-> NoError]
    /\ saved = [droplet_config |-> << >>, droplet_id |-> 0, ip |-> << >>]
    /\ tick = 0
    /\ stdout = "utf-8"

\* a new process starts: nothing but the file and the provider survives, and
\* the standard output is the one this invocation is given
NewProcess(o, d) ==
    /\ Finished
    /\ runs < MaxRuns
    /\ runs' = runs + 1
    /\ op' = o
    /\ doc' = d
    /\ pos' = 1
    /\ listener' = TerraformListener
    /\ token' = << >>
    /\ droplet_id' = 0
    /\ ip' = << >>
    /\ tick' = 0
    /\ trace' = << >>
    /\ pre' = [stateFile |-> stateFile, remote |-> remote]
    /\ prev' = [op |-> op, doc |-> doc, pc |-> pc, droplet_id |-> droplet_id,
                err |-> err]
    /\ stdout' \in StdoutEncodings
    /\ UNCHANGED world

Raise(e) ==
    /\ pc' = "failed"
    /\ err' = e

Log(e) == trace' = Append(trace, e)

(***************************************************************************)
(* terraform_apply and terraform_destroy, step by step                     *)
(***************************************************************************)
\* terraform_apply, lines 167-174: parse the file, make the listener
ApplyStart(d) ==
    /\ NewProcess("apply", d)
    /\ state_info' = None
    /\ pc' = "walk"
    /\ err' = NoError

\* terraform_destroy, lines 190-202: load the state, return if there is none
DestroyStart(d) ==
    /\ NewProcess("destroy", d)
    /\ LET r == load_state_file(stateFile)
       IN /\ state_info' = r.value
          /\ IF r.raised
             THEN Raise(Error("JSONDecodeError"))
             ELSE /\ err' = NoError
                  /\ pc' = IF r.value = << >> THEN "done" ELSE "walk"

\* walker.walk: the next block is a variable block
WalkVariable ==
    /\ pc = "walk"
    /\ pos <= Len(doc)
    /\ doc[pos].kind = "variable"
    /\ listener' = enterVariable(listener, doc[pos])
    /\ pos' = pos + 1
    /\ UNCHANGED << pc, err, trace, locals, world, frame >>

\* walker.walk: the next block is a provider block
WalkProvider ==
    /\ pc = "walk"
    /\ pos <= Len(doc)
    /\ doc[pos].kind = "provider"
    /\ LET r == enterProvider(listener, doc[pos])
       IN IF r.raised
          THEN /\ Raise(Error(r.error))
               /\ UNCHANGED << listener, pos >>
          ELSE /\ listener' = r.self
               /\ pos' = pos + 1
               /\ UNCHANGED << pc, err >>
    /\ UNCHANGED << trace, locals, world, frame >>

\* walker.walk: the next block is a resource block
WalkResource ==
    /\ pc = "walk"
    /\ pos <= Len(doc)
    /\ doc[pos].kind = "resource"
    /\ listener' = enterResource(listener, doc[pos])
    /\ pos' = pos + 1
    /\ UNCHANGED << pc, err, trace, locals, world, frame >>

\* mutant: resolve_token takes the variable it resolved out of the table
ResolveToken_Consuming ==
    /\ pc = "walk"
    /\ pos > Len(doc)
    /\ LET r == resolve_token(listener)
       IN /\ Log(Ev("resolve", ~r.raised, << >>, listener.provider_token_expr, r.value))
          /\ IF r.raised
             THEN /\ Raise([kind |-> r.error, name |-> r.name])
                  /\ UNCHANGED << token, listener >>
             ELSE /\ token' = r.value
                  /\ listener' = [listener EXCEPT !.variables = << >>]
                  /\ pc' = IF op = "apply" THEN "check" ELSE "delete"
                  /\ UNCHANGED err
    /\ UNCHANGED << pos, droplet_id, ip, state_info, tick, world, frame >>

\* mutant: apply checks the resource config before it resolves the token
ResolveToken_ResourceFirst ==
    /\ pc = "walk"
    /\ pos > Len(doc)
    /\ IF op = "apply" /\ listener.droplet_config = << >>
       THEN /\ Raise(Error("MissingResource"))
            /\ UNCHANGED << token, trace >>
       ELSE LET r == resolve_token(listener)
            IN /\ Log(Ev("resolve", ~r.raised, << >>, listener.provider_token_expr, r.value))
               /\ IF r.raised
                  THEN /\ Raise([kind |-> r.error, name |-> r.name])
                       /\ UNCHANGED token
                  ELSE /\ token' = r.value
                       /\ pc' = IF op = "apply" THEN "check" ELSE "delete"
                       /\ UNCHANGED err
    /\ UNCHANGED << pos, listener, droplet_id, ip, state_info, tick, world, frame >>

\* token = listener.resolve_token(), line 177 and line 206
ResolveToken ==
    /\ pc = "walk"
    /\ pos > Len(doc)
    /\ LET r == resolve_token(listener)
       IN /\ Log(Ev("resolve", ~r.raised, << >>, listener.provider_token_expr, r.value))
          /\ IF r.raised
             THEN /\ Raise([kind |-> r.error, name |-> r.name])
                  /\ UNCHANGED token
             ELSE /\ token' = r.value
                  /\ pc' = IF op = "apply" THEN "check" ELSE "delete"
                  /\ UNCHANGED err
    /\ UNCHANGED << pos, listener, droplet_id, ip, state_info, tick, world, frame >>

\* terraform_apply, lines 178-179
CheckResource ==
    /\ pc = "check"
    /\ IF listener.droplet_config = << >>
       THEN Raise(Error("MissingResource"))
       ELSE /\ pc' = "create"
            /\ UNCHANGED err
    /\ UNCHANGED << pos, listener, trace, locals, world, frame >>

\* mutant: a missing attribute is sent as None (dict.get) instead of raising
CreatePost_Defaults ==
    /\ pc = "create"
    /\ LET config == listener.droplet_config
           body == [k \in {"name", "region", "size", "image"} |->
                      IF k \in DOMAIN config THEN config[k] ELSE None]
       IN \E ok \in BOOLEAN :
            IF ok
            THEN /\ Log(Ev("create", TRUE, token, body, nextId))
                 /\ droplet_id' = nextId
                 /\ remote' = remote \cup {nextId}
                 /\ nextId' = nextId + 1
                 /\ pc' = "poll"
                 /\ UNCHANGED err
            ELSE /\ Log(Ev("create", FALSE, token, body, 0))
                 /\ Raise(Error("HTTPError"))
                 /\ UNCHANGED << droplet_id, remote, nextId >>
    /\ UNCHANGED << pos, listener, token, ip, state_info, tick, stateFile, saved, frame >>

\* mutant: the identifier is persisted right after the POST, before the poll
CreatePost_PersistEarly ==
    /\ pc = "create"
    /\ LET config == listener.droplet_config
           missing == FirstMissing(config, RequiredKeys)
       IN IF missing # ""
          THEN /\ Raise([kind |-> "KeyError", name |-> << missing >>])
               /\ UNCHANGED << trace, droplet_id, remote, nextId, stateFile >>
          ELSE \E ok \in BOOLEAN :
                 IF ok
                 THEN /\ Log(Ev("create", TRUE, token, payload(config), nextId))
                      /\ droplet_id' = nextId
                      /\ remote' = remote \cup {nextId}
                      /\ nextId' = nextId + 1
                      /\ stateFile' = [status |-> "ok",
                                       json |-> save_state_file(config, nextId, << >>)]
                      /\ pc' = "poll"
                      /\ UNCHANGED err
                 ELSE /\ Log(Ev("create", FALSE, token, payload(config), 0))
                      /\ Raise(Error("HTTPError"))
                      /\ UNCHANGED << droplet_id, remote, nextId, stateFile >>
    /\ UNCHANGED << pos, listener, token, ip, state_info, tick, saved, frame >>

\* create_droplet, lines 60-85: build the payload, POST it
CreatePost ==
    /\ pc = "create"
    /\ LET config == listener.droplet_config
           missing == FirstMissing(config, RequiredKeys)
       IN IF missing # ""
          THEN /\ Raise([kind |-> "KeyError", name |-> << missing >>])
               /\ UNCHANGED << trace, droplet_id, remote, nextId >>
          ELSE \E ok \in BOOLEAN :
                 IF ok
                 THEN /\ Log(Ev("create", TRUE, token, payload(config), nextId))
                      /\ droplet_id' = nextId
                      /\ remote' = remote \cup {nextId}
                      /\ nextId' = nextId + 1
                      /\ pc' = "poll"
                      /\ UNCHANGED err
                 ELSE /\ Log(Ev("create", FALSE, token, payload(config), 0))
                      /\ Raise(Error("HTTPError"))
                      /\ UNCHANGED << droplet_id, remote, nextId >>
    /\ UNCHANGED << pos, listener, token, ip, state_info, tick, stateFile, saved, frame >>

NotReadyReads(t) ==
    Cardinality({i \in 1..Len(t) : t[i].ev = "read" /\ t[i].ok /\ public_ips(t[i].ret) = << >>})

\* mutant: a failed read deletes the droplet before the error is raised
CreatePoll_Compensate ==
    /\ pc = "poll"
    /\ tick' = 1 - tick
    /\ \/ /\ trace' = trace \o << Ev("read", FALSE, token, droplet_id, << >>),
                                  Ev("delete", TRUE, token, Str(droplet_id), << >>) >>
          /\ remote' = remote \ {droplet_id}
          /\ Raise(Error("ReadError"))
          /\ UNCHANGED ip
       \/ \E networks \in NotReadyNetworks \cup ReadyNetworks :
            /\ IF public_ips(networks) # << >>
               THEN /\ Log(Ev("read", TRUE, token, droplet_id, networks))
                    /\ ip' = public_ips(networks)[1]
                    /\ pc' = "save"
                    /\ UNCHANGED err
               ELSE /\ trace' = IF NotReadyReads(trace) < MaxPolls
                                THEN Append(trace, Ev("read", TRUE, token, droplet_id, networks))
                                ELSE trace
                    /\ UNCHANGED << pc, err, ip >>
            /\ UNCHANGED remote
    /\ UNCHANGED << pos, listener, token, droplet_id, state_info, stateFile, nextId,
                    saved, frame >>

\* mutant: the loop gives up after MaxPolls reads without a public address
CreatePoll_Timeout ==
    /\ pc = "poll"
    /\ tick' = 1 - tick
    /\ \/ /\ Log(Ev("read", FALSE, token, droplet_id, << >>))
          /\ Raise(Error("ReadError"))
          /\ UNCHANGED ip
       \/ \E networks \in NotReadyNetworks \cup ReadyNetworks :
            IF public_ips(networks) # << >>
            THEN /\ Log(Ev("read", TRUE, token, droplet_id, networks))
                 /\ ip' = public_ips(networks)[1]
                 /\ pc' = "save"
                 /\ UNCHANGED err
            ELSE IF NotReadyReads(trace) < MaxPolls
                 THEN /\ Log(Ev("read", TRUE, token, droplet_id, networks))
                      /\ UNCHANGED << pc, err, ip >>
                 ELSE /\ Raise(Error("PollTimeout"))
                      /\ UNCHANGED << trace, ip >>
    /\ UNCHANGED << pos, listener, token, droplet_id, state_info, world, frame >>

\* mutant: a failed read is taken for "not ready yet" and polled again
CreatePoll_RetryOnFailure ==
    /\ pc = "poll"
    /\ tick' = 1 - tick
    /\ \/ /\ trace' = IF \A i \in 1..Len(trace) : trace[i].ev = "read" => trace[i].ok
                       THEN Append(trace, Ev("read", FALSE, token, droplet_id, << >>))
                       ELSE trace
          /\ UNCHANGED << pc, err, ip >>
       \/ \E networks \in NotReadyNetworks \cup ReadyNetworks :
            IF public_ips(networks) # << >>
            THEN /\ Log(Ev("read", TRUE, token, droplet_id, networks))
                 /\ ip' = public_ips(networks)[1]
                 /\ pc' = "save"
                 /\ UNCHANGED err
            ELSE /\ trace' = IF NotReadyReads(trace) < MaxPolls
                             THEN Append(trace, Ev("read", TRUE, token, droplet_id, networks))
                             ELSE trace
                 /\ UNCHANGED << pc, err, ip >>
    /\ UNCHANGED << pos, listener, token, droplet_id, state_info, world, frame >>

\* create_droplet, lines 88-96: one turn of the polling loop.  A failed read
\* is a requests.get that raises or a response whose body has no droplet
\* object (line 90 raises); the status of the response is never looked at.
CreatePoll ==
    /\ pc = "poll"
    /\ tick' = 1 - tick
    /\ \/ /\ Log(Ev("read", FALSE, token, droplet_id, << >>))
          /\ Raise(Error("ReadError"))
          /\ UNCHANGED ip
       \/ \E networks \in NotReadyNetworks \cup ReadyNetworks :
            IF public_ips(networks) # << >>
            THEN /\ Log(Ev("read", TRUE, token, droplet_id, networks))
                 /\ ip' = public_ips(networks)[1]
                 /\ pc' = "save"
                 /\ UNCHANGED err
            ELSE /\ trace' = IF NotReadyReads(trace) < MaxPolls
                             THEN Append(trace, Ev("read", TRUE, token, droplet_id, networks))
                             ELSE trace
                 /\ UNCHANGED << pc, err, ip >>
    /\ UNCHANGED << pos, listener, token, droplet_id, state_info, world, frame >>

\* save_state_file, line 182: the file is written and closed (lines 127-128),
\* then line 130 prints a check mark; then the two prints of terraform_apply,
\* lines 184-185, print one each.  A print that raises ends the invocation
\* with the file already written.
SaveState ==
    /\ pc = "save"
    /\ LET json == save_state_file(listener.droplet_config, droplet_id, ip)
       IN \E outcome \in {"ok", "open fails", "dump fails"} :
            CASE outcome = "ok" ->
                   /\ stateFile' = [status |-> "ok", json |-> json]
                   /\ saved' = [droplet_config |-> listener.droplet_config,
                                droplet_id |-> droplet_id, ip |-> ip]
                   /\ Log(Ev("write", TRUE, << >>, json, << >>))
                   /\ IF PrintsCheckMark(stdout)
                      THEN /\ pc' = "done"
                           /\ UNCHANGED err
                      ELSE Raise(Error("UnicodeEncodeError"))
              [] outcome = "open fails" ->
                   /\ Log(Ev("write", FALSE, << >>, json, << >>))
                   /\ Raise(Error("OSError"))
                   /\ UNCHANGED << stateFile, saved >>
              [] outcome = "dump fails" ->
                   /\ stateFile' = CorruptFile
                   /\ Log(Ev("write", FALSE, << >>, json, << >>))
                   /\ Raise(Error("OSError"))
                   /\ UNCHANGED saved
    /\ UNCHANGED << pos, listener, locals, remote, nextId, frame >>

\* mutant: the state file is removed before the DELETE request is sent
DestroyDroplet_RemoveFirst ==
    /\ pc = "delete"
    /\ stateFile' = AbsentFile
    /\ LET id == state_info["id"]
           target == {d \in remote : Str(d) = id}
       IN \E ok \in BOOLEAN :
            IF ok /\ target # {}
            THEN /\ trace' = trace \o << Ev("remove", TRUE, << >>, << >>, << >>),
                                          Ev("delete", TRUE, token, id, << >>) >>
                 /\ remote' = remote \ target
                 /\ IF PrintsCheckMark(stdout)
                    THEN /\ pc' = "remove"
                         /\ UNCHANGED err
                    ELSE Raise(Error("UnicodeEncodeError"))
            ELSE /\ trace' = trace \o << Ev("remove", TRUE, << >>, << >>, << >>),
                                          Ev("delete", FALSE, token, id, << >>) >>
                 /\ Raise(Error("HTTPError"))
                 /\ UNCHANGED remote
    /\ UNCHANGED << pos, listener, locals, nextId, saved, frame >>

\* mutant: the status of the DELETE response is not checked
DestroyDroplet_NoRaise ==
    /\ pc = "delete"
    /\ LET id == state_info["id"]
           target == {d \in remote : Str(d) = id}
       IN \E ok \in BOOLEAN :
            /\ Log(Ev("delete", ok /\ target # {}, token, id, << >>))
            /\ remote' = IF ok THEN remote \ target ELSE remote
            /\ IF PrintsCheckMark(stdout)
               THEN /\ pc' = "remove"
                    /\ UNCHANGED err
               ELSE Raise(Error("UnicodeEncodeError"))
    /\ UNCHANGED << pos, listener, locals, stateFile, nextId, saved, frame >>

\* destroy_droplet, line 209: the DELETE request (line 161), raise_for_status
\* (line 162), then line 163 prints a check mark.  A print that raises ends
\* the invocation with the droplet already deleted and before os.remove.
DestroyDroplet ==
    /\ pc = "delete"
    /\ LET id == state_info["id"]
           target == {d \in remote : Str(d) = id}
       IN \E ok \in BOOLEAN :
            IF ok /\ target # {}
            THEN /\ Log(Ev("delete", TRUE, token, id, << >>))
                 /\ remote' = remote \ target
                 /\ IF PrintsCheckMark(stdout)
                    THEN /\ pc' = "remove"
                         /\ UNCHANGED err
                    ELSE Raise(Error("UnicodeEncodeError"))
            ELSE /\ Log(Ev("delete", FALSE, token, id, << >>))
                 /\ Raise(Error("HTTPError"))
                 /\ UNCHANGED remote
    /\ UNCHANGED << pos, listener, locals, stateFile, nextId, saved, frame >>

\* terraform_destroy, lines 212-219: os.remove of the state file, then the
\* prints of lines 215 and 219, a check mark each
RemoveState ==
    /\ pc = "remove"
    /\ \E ok \in BOOLEAN :
         IF ok \/ stateFile.status = "absent"
         THEN /\ stateFile' = AbsentFile
              /\ Log(Ev("remove", TRUE, << >>, << >>, << >>))
              /\ IF PrintsCheckMark(stdout)
                 THEN /\ pc' = "done"
                      /\ UNCHANGED err
                 ELSE Raise(Error("UnicodeEncodeError"))
         ELSE /\ Log(Ev("remove", FALSE, << >>, << >>, << >>))
              /\ Raise(Error("OSError"))
              /\ UNCHANGED stateFile
    /\ UNCHANGED << pos, listener, locals, remote, nextId, saved, frame >>

\* main: one invocation of the command line
Next ==
    \/ \E d \in Docs : ApplyStart(d)
    \/ \E d \in Docs : DestroyStart(d)
    \/ WalkVariable
    \/ WalkProvider
    \/ WalkResource
    \/ ResolveToken
    \/ CheckResource
    \/ CreatePost
    \/ CreatePoll
    \/ SaveState
    \/ DestroyDroplet
    \/ RemoveState

Spec == Init /\ [][Next]_vars

TypeOK ==
    /\ runs \in 0..MaxRuns
    /\ op \in {"none", "apply", "destroy"}
    /\ stdout \in StdoutEncodings
    /\ pc \in {"idle", "walk", "check", "create", "poll", "save", "delete",
               "remove", "done", "failed"}

(***************************************************************************)
(* What the claims speak about, read off the document and the call trace   *)
(* without the listener.                                                   *)
(***************************************************************************)
EventsOf(t, e) == {i \in 1..Len(t) : t[i].ev = e}
RemoteCalls(t) == {i \in 1..Len(t) : t[i].ev \in {"create", "read", "delete"}}
FileAttrs(f) == f.json.resources[1].instances[1].attributes

BlocksOf(d, k) == {i \in 1..Len(d) : d[i].kind = k}
\* no provider block of d has a token key
NoTokenKey(d) ==
    \A i \in BlocksOf(d, "provider") :
        \A j \in 1..Len(d[i].body) : d[i].body[j].IDENTIFIER # "token"
\* every provider block of d is a digitalocean block
SupportedProviders(d) ==
    \A i \in BlocksOf(d, "provider") : d[i].STRING[1] = Quoted(DIGITALOCEAN)

\* a destroy has just loaded a record from the state file
Loaded == op = "destroy" /\ state_info # None

(***************************************************************************)
(* C1, as stated: a load right after a save returns every field of the     *)
(* saved record: remote id, name, region, size, image and network address. *)
(* The code returns only id, name and ip.                                  *)
(***************************************************************************)
C1_RoundTripAllFields ==
    Loaded =>
        /\ state_info["id"] = Str(saved.droplet_id)
        /\ state_info["name"] = saved.droplet_config["name"]
        /\ "region" \in DOMAIN state_info
        /\ "size" \in DOMAIN state_info
        /\ "image" \in DOMAIN state_info
        /\ state_info["ip"] = saved.ip

(***************************************************************************)
(* C1, amended: a load after a save returns exactly three fields: the      *)
(* remote id in its decimal string form, the name and the network address  *)
(* that were saved; region, size and image are not returned.               *)
(***************************************************************************)
C1_RoundTrip ==
    Loaded =>
        /\ DOMAIN state_info = {"id", "name", "ip"}
        /\ state_info["id"] = Str(saved.droplet_id)
        /\ state_info["name"] = saved.droplet_config["name"]
        /\ state_info["ip"] = saved.ip

\* a destroy has loaded the record of the droplet with the two-digit id
C1_Witness ==
    /\ Loaded
    /\ pc = "walk"
    /\ saved.droplet_id = FirstId + 1
    /\ state_info["id"] = Str(FirstId + 1)
    /\ Len(state_info["id"]) = 2
    /\ state_info["ip"] = IP_B

(***************************************************************************)
(* C2: a second terraform_apply of the same document, run when the state   *)
(* file already records the one live resource of a successful apply, ends  *)
(* with exactly one live remote resource, the one the state file records.  *)
(* The code creates a second resource and forgets the first.               *)
(***************************************************************************)
C2_ApplyIdempotent ==
    ( /\ op = "apply"
      /\ pc = "done"
      /\ prev.op = "apply"
      /\ prev.pc = "done"
      /\ prev.doc = doc
      /\ pre.stateFile.status = "ok"
      /\ pre.remote = {prev.droplet_id} )
    => /\ Cardinality(remote) = 1
       /\ stateFile.status = "ok"
       /\ \A d \in remote : Str(d) = FileAttrs(stateFile).id

(***************************************************************************)
(* C3: when no provider block of the document declares a token key, apply  *)
(* issues no create, no read and no delete, writes no state record and     *)
(* never completes; its provider blocks being digitalocean blocks, it      *)
(* ends in the missing-token error.                                        *)
(***************************************************************************)
C3_NoTokenNoRemoteCall ==
    (op = "apply" /\ NoTokenKey(doc)) =>
        /\ RemoteCalls(trace) = {}
        /\ EventsOf(trace, "write") = {}
        /\ stateFile = pre.stateFile
        /\ remote = pre.remote
        /\ pc \in {"walk", "failed"}
        /\ (pc = "failed" /\ SupportedProviders(doc)) => err = Error("NoToken")

\* the apply of the document without a token key has failed
C3_Witness ==
    /\ op = "apply"
    /\ doc = DocNoToken
    /\ pc = "failed"
    /\ err = Error("NoToken")
    /\ EventsOf(trace, "resolve") # {}

(***************************************************************************)
(* C4: a destroy started when no state file exists reports nothing to do   *)
(* for every document: it returns without an error, issues no remote call, *)
(* resolves nothing, and leaves the state absent and the provider alone.   *)
(***************************************************************************)
C4_DestroyWithoutState ==
    (op = "destroy" /\ pre.stateFile.status = "absent") =>
        /\ pc = "done"
        /\ err = NoError
        /\ state_info = None
        /\ trace = << >>
        /\ stateFile = AbsentFile
        /\ remote = pre.remote

\* a destroy of the document with the unsupported provider, without state
C4_Witness ==
    /\ op = "destroy"
    /\ pre.stateFile.status = "absent"
    /\ doc = DocAwsNoToken
    /\ pc = "done"
    /\ remote # {}

(***************************************************************************)
(* C5: a successful destroy that follows a successful apply of the same    *)
(* document makes exactly the calls resolve, delete, remove in this order; *)
(* the one delete succeeded and names the identifier that apply persisted; *)
(* the state file is gone afterwards, so a load returns None.  In every    *)
(* destroy the state file changes only after a successful delete, and a    *)
(* destroy that follows a completed destroy issues no remote call.         *)
(***************************************************************************)
C5_DestroyAfterApply ==
    /\ ( /\ Loaded
         /\ pc = "done"
         /\ prev.op = "apply"
         /\ prev.pc = "done"
         /\ prev.doc = doc )
       => /\ Len(trace) = 3
          /\ trace[1].ev = "resolve"
          /\ trace[2].ev = "delete"
          /\ trace[2].ok
          /\ trace[2].req = Str(prev.droplet_id)
          /\ trace[2].req = FileAttrs(pre.stateFile).id
          /\ trace[2].auth = trace[1].ret
          /\ trace[3].ev = "remove"
          /\ prev.droplet_id \notin remote
          /\ stateFile = AbsentFile
          /\ load_state_file(stateFile) = [raised |-> FALSE, value |-> None]
    /\ (op = "destroy" /\ stateFile # pre.stateFile)
       => \E i \in EventsOf(trace, "delete") :
              /\ trace[i].ok
              /\ \A j \in EventsOf(trace, "remove") : i < j
    /\ (op = "destroy" /\ prev.op = "destroy" /\ prev.pc = "done")
       => /\ RemoteCalls(trace) = {}
          /\ pc = "done"

\* the destroy after the apply of the scenario document has completed
C5_Witness ==
    /\ Loaded
    /\ pc = "done"
    /\ prev.op = "apply"
    /\ prev.pc = "done"
    /\ prev.doc = doc
    /\ doc = DocScenario
    /\ trace[2].req = Str(FirstId)
    /\ stateFile = AbsentFile

\* some provider block of d is not a digitalocean block
UnsupportedProvider(d) ==
    \E i \in BlocksOf(d, "provider") : d[i].STRING[1] # Quoted(DIGITALOCEAN)

(***************************************************************************)
(* C6: for a document with a provider block of another type than           *)
(* digitalocean, apply, and destroy with a state record loaded, never get  *)
(* past the tree walk: no token is resolved, no create, read or delete is  *)
(* issued, the state file and the provider are unchanged, and the          *)
(* invocation ends in the unsupported-provider error.                      *)
(***************************************************************************)
C6_UnsupportedProvider ==
    (UnsupportedProvider(doc) /\ (op = "apply" \/ Loaded)) =>
        /\ trace = << >>
        /\ stateFile = pre.stateFile
        /\ remote = pre.remote
        /\ pc \in {"walk", "failed"}
        /\ pc = "failed" => err = Error("UnsupportedProvider")

\* a destroy with a state record present has failed on the provider block
C6_Witness ==
    /\ Loaded
    /\ doc = DocAws
    /\ pc = "failed"
    /\ err = Error("UnsupportedProvider")
    /\ pre.stateFile.status = "ok"
    /\ stateFile = pre.stateFile

\* the attribute pairs of the digitalocean_droplet blocks among d[1..n]
MatchingPairs(d, n) ==
    UNION { { << d[i].body[j].IDENTIFIER, Strip(d[i].body[j].expr) >> :
                j \in 1..Len(d[i].body) } :
            i \in {b \in BlocksOf(d, "resource") :
                     b <= n /\ d[b].STRING[1] = Quoted(DIGITALOCEAN_DROPLET)} }

\* d has no digitalocean_droplet resource block
NoMatchingResource(d) ==
    \A i \in BlocksOf(d, "resource") : d[i].STRING[1] # Quoted(DIGITALOCEAN_DROPLET)

(***************************************************************************)
(* C7: every entry of the resource config is an attribute of a             *)
(* digitalocean_droplet block already visited, so blocks of other types    *)
(* add nothing; for a document without such a block the config stays       *)
(* empty, apply issues no create, changes nothing at the provider, and,    *)
(* when its token resolved, ends in the missing-resource error.            *)
(***************************************************************************)
C7_OtherResourcesIgnored ==
    /\ \A k \in DOMAIN listener.droplet_config :
          << k, listener.droplet_config[k] >> \in MatchingPairs(doc, pos - 1)
    /\ (op = "apply" /\ NoMatchingResource(doc)) =>
          /\ listener.droplet_config = << >>
          /\ EventsOf(trace, "create") = {}
          /\ remote = pre.remote
          /\ stateFile = pre.stateFile
          /\ pc \in {"walk", "check", "failed"}
          /\ (pc = "failed" /\ \E i \in EventsOf(trace, "resolve") : trace[i].ok)
                => err = Error("MissingResource")

\* the apply of the document with only an aws_instance block has failed
C7_Witness ==
    /\ op = "apply"
    /\ doc = DocOtherResource
    /\ pc = "failed"
    /\ err = Error("MissingResource")
    /\ token = T_xyz
    /\ listener.droplet_config = << >>

(***************************************************************************)
(* Declarations of a document, in document order.                          *)
(***************************************************************************)
\* positions << block, pair >> of the pairs with key k in the blocks bs of d
PairsAt(d, bs, k) ==
    UNION { { << i, j >> : j \in {x \in 1..Len(d[i].body) : d[i].body[x].IDENTIFIER = k} } :
            i \in bs }
\* the last position of a non-empty set of positions
LastOf(S) ==
    CHOOSE p \in S : \A q \in S : q[1] < p[1] \/ (q[1] = p[1] /\ q[2] <= p[2])
\* the default keys of the variable blocks named n
Defaults(d, n) ==
    PairsAt(d, {i \in BlocksOf(d, "variable") : d[i].STRING[1] = Quoted(n)}, "default")
\* the token keys of the provider blocks
Tokens(d) == PairsAt(d, BlocksOf(d, "provider"), "token")
\* the keys k of the digitalocean_droplet blocks
Attrs(d, k) ==
    PairsAt(d, {i \in BlocksOf(d, "resource") :
                  d[i].STRING[1] = Quoted(DIGITALOCEAN_DROPLET)}, k)
ExprAt(d, p) == d[p[1]].body[p[2]].expr
\* a quoted literal without its quotes
Unquoted(e) == SubSeq(e, 2, Len(e) - 1)

(***************************************************************************)
(* C8: when the token expression of the document is var.<name> and it is   *)
(* resolved: if a variable block named <name> has a default key, the       *)
(* resolution succeeds and the token is the declared default (the last     *)
(* one, without its quotes); if no variable block named <name> has a       *)
(* default key, the invocation fails with the undefined-variable error     *)
(* that names <name>.                                                      *)
(***************************************************************************)
C8_VariableReference ==
    (Tokens(doc) # {} /\ EventsOf(trace, "resolve") # {}) =>
        LET e == ExprAt(doc, LastOf(Tokens(doc)))
            n == SubSeq(e, Len(VAR_PREFIX) + 1, Len(e))
        IN (SubSeq(e, 1, Len(VAR_PREFIX)) = VAR_PREFIX) =>
              IF Defaults(doc, n) # {}
              THEN /\ trace[1].ok
                   /\ trace[1].ret = Unquoted(ExprAt(doc, LastOf(Defaults(doc, n))))
                   /\ token = trace[1].ret
                   /\ err.kind # "UndefinedVariable"
              ELSE /\ ~trace[1].ok
                   /\ token = << >>
                   /\ pc = "failed"
                   /\ err = [kind |-> "UndefinedVariable", name |-> n]

\* the reference of the scenario document has been resolved to its default
C8_Witness ==
    /\ doc = DocScenario
    /\ EventsOf(trace, "resolve") = {1}
    /\ trace[1].req = VarRef(T_token)
    /\ token = T_abc123

\* the first public address of a read response
FirstPublic(networks) ==
    networks[CHOOSE i \in 1..Len(networks) :
                /\ networks[i].type = "public"
                /\ \A j \in 1..(i - 1) : networks[j].type # "public"].ip_address
HasPublic(networks) == \E i \in 1..Len(networks) : networks[i].type = "public"

(***************************************************************************)
(* C9: the calls of a completed apply are, in this order, the token        *)
(* resolution, one successful create that carries the resolved token and   *)
(* the document's name, region, size and image, successful reads of the    *)
(* created identifier of which only the last reports a public address,     *)
(* and one state write; the state file then records the identifier the     *)
(* create returned (as a decimal string), the first public address of the  *)
(* last read, and the four attributes sent to create.                      *)
(***************************************************************************)
C9_ApplyOrder ==
    (op = "apply" /\ pc = "done") =>
        LET n == Len(trace)
            a == FileAttrs(stateFile)
        IN /\ n >= 4
           /\ trace[1].ev = "resolve" /\ trace[1].ok
           /\ trace[2].ev = "create" /\ trace[2].ok
           /\ trace[2].auth = trace[1].ret
           /\ trace[2].ret \in remote
           /\ \A k \in {"name", "region", "size", "image"} :
                /\ Attrs(doc, k) # {}
                /\ trace[2].req[k] = Unquoted(ExprAt(doc, LastOf(Attrs(doc, k))))
                /\ a[k] = trace[2].req[k]
           /\ \A i \in 3..(n - 1) :
                /\ trace[i].ev = "read" /\ trace[i].ok
                /\ trace[i].req = trace[2].ret
                /\ HasPublic(trace[i].ret) <=> (i = n - 1)
           /\ trace[n].ev = "write" /\ trace[n].ok
           /\ stateFile = [status |-> "ok", json |-> trace[n].req]
           /\ a.id = Str(trace[2].ret)
           /\ a.ipv4_address = FirstPublic(trace[n - 1].ret)
           /\ DOMAIN a = {"id", "name", "region", "size", "image", "ipv4_address"}

\* the apply of the scenario document has completed after a not-ready read
C9_Witness ==
    /\ op = "apply"
    /\ pc = "done"
    /\ doc = DocScenario
    /\ Len(trace) = 5
    /\ trace[2].auth = T_abc123
    /\ trace[2].req["name"] = T_x
    /\ trace[4].ret = << Net("public", IP_B), Net("public", IP_A) >>
    /\ FileAttrs(stateFile).ipv4_address = IP_B
    /\ FileAttrs(stateFile).id = Str(FirstId + 1)
    /\ Len(FileAttrs(stateFile).id) = 2

\* the failures of apply that C10 names: a failed poll, a failed state write
PollOrWriteFailure == {"ReadError", "OSError"}

(***************************************************************************)
(* C10: an apply that has failed after its create succeeded issued no      *)
(* delete and the created resource still exists.  When the failure is one  *)
(* while polling or one writing the state file, the state file does not    *)
(* record the identifier of the created resource, and a destroy that runs  *)
(* next issues no delete for that identifier and leaves the resource in    *)
(* existence.  The one other failure after the create is the print that    *)
(* follows the completed write.                                            *)
(***************************************************************************)
C10_NoCompensation ==
    /\ (op = "apply" /\ pc = "failed" /\ droplet_id # 0) =>
          /\ EventsOf(trace, "create") # {}
          /\ droplet_id \in remote
          /\ EventsOf(trace, "delete") = {}
          /\ err.kind \in PollOrWriteFailure \cup {"UnicodeEncodeError"}
          /\ err.kind = "UnicodeEncodeError" =>
                \E i \in EventsOf(trace, "write") : trace[i].ok
          /\ (err.kind \in PollOrWriteFailure /\ stateFile.status = "ok") =>
                FileAttrs(stateFile).id # Str(droplet_id)
    /\ ( /\ op = "destroy"
         /\ prev.op = "apply"
         /\ prev.pc = "failed"
         /\ prev.droplet_id # 0
         /\ prev.err.kind \in PollOrWriteFailure ) =>
          /\ prev.droplet_id \in remote
          /\ \A i \in EventsOf(trace, "delete") : trace[i].req # Str(prev.droplet_id)
          /\ Loaded => state_info["id"] # Str(prev.droplet_id)

\* a destroy after an apply that failed in its poll removed the recorded
\* resource and left the one the failed apply created
C10_Witness ==
    /\ op = "destroy"
    /\ pc = "done"
    /\ prev.op = "apply"
    /\ prev.pc = "failed"
    /\ prev.err = Error("ReadError")
    /\ prev.droplet_id = FirstId + 1
    /\ remote = {FirstId + 1}
    /\ \E i \in EventsOf(trace, "delete") : trace[i].ok /\ trace[i].req = Str(FirstId)
    /\ stateFile = AbsentFile

(***************************************************************************)
(* C11: a failed read is the last call of apply: no read, no write and no  *)
(* other call follows it, apply has failed with the read error and the     *)
(* state file is what it was; a read is followed by another read only when *)
(* it succeeded and reported no public address.                            *)
(***************************************************************************)
C11_FailedReadIsFatal ==
    op = "apply" =>
        /\ \A i \in EventsOf(trace, "read") :
             ~trace[i].ok =>
                /\ i = Len(trace)
                /\ pc = "failed"
                /\ err = Error("ReadError")
                /\ EventsOf(trace, "write") = {}
                /\ stateFile = pre.stateFile
        /\ \A i \in EventsOf(trace, "read") :
             (i < Len(trace) /\ trace[i + 1].ev = "read") =>
                /\ trace[i].ok
                /\ ~HasPublic(trace[i].ret)

\* the read after a not-ready read has failed, with a state record present
C11_Witness ==
    /\ op = "apply"
    /\ pc = "failed"
    /\ err = Error("ReadError")
    /\ Len(trace) = 4
    /\ trace[3].ev = "read" /\ trace[3].ok /\ trace[3].ret = << Net("private", IP_PRIVATE) >>
    /\ trace[4].ev = "read" /\ ~trace[4].ok
    /\ stateFile.status = "ok"

(***************************************************************************)
(* Fairness.  The process runs to its end: a step of a running invocation  *)
(* that stays possible is taken.  SpecFair assumes in addition that the    *)
(* provisioning API reports a public address to a loop that keeps polling. *)
(***************************************************************************)
Program ==
    \/ WalkVariable
    \/ WalkProvider
    \/ WalkResource
    \/ ResolveToken
    \/ CheckResource
    \/ CreatePost
    \/ CreatePoll
    \/ SaveState
    \/ DestroyDroplet
    \/ RemoveState

ReadyRead == CreatePoll /\ pc' = "save"

SpecProgress == Spec /\ WF_vars(Program)

SpecFair == Spec /\ WF_vars(Program) /\ WF_vars(ReadyRead)

\* a read of the running apply has reported a public address
AddressReported ==
    \E i \in EventsOf(trace, "read") : trace[i].ok /\ HasPublic(trace[i].ret)
\* a read of the running apply has failed
ReadFailed == \E i \in EventsOf(trace, "read") : ~trace[i].ok

\* the state write of the running apply has completed
RecordWritten ==
    /\ stateFile.status = "ok"
    /\ \E i \in EventsOf(trace, "write") : trace[i].ok

\* after a successful create and without a failed read, apply is in its
\* polling loop, with the state file untouched, exactly as long as no read
\* has reported a public address; after such a read it is about to write,
\* has completed, has failed in the write, or has written the record and
\* failed in the print that follows on a standard output without U+2713
C12_PollsUntilAddress ==
    (op = "apply" /\ droplet_id # 0 /\ ~ReadFailed) =>
        IF AddressReported
        THEN \/ pc \in {"save", "done"}
             \/ pc = "failed" /\ err = Error("OSError")
             \/ /\ pc = "failed"
                /\ err = Error("UnicodeEncodeError")
                /\ ~PrintsCheckMark(stdout)
                /\ RecordWritten
        ELSE /\ pc = "poll"
             /\ EventsOf(trace, "write") = {}
             /\ stateFile = pre.stateFile

(***************************************************************************)
(* C12: the polling of apply has no bound.  After a successful create and  *)
(* as long as no read fails, apply stays in the polling loop and writes no *)
(* state record until a read reports a public address, however many reads  *)
(* it takes, and it completes only after such a read.  When the API        *)
(* eventually reports an address, an apply that polls eventually ends with *)
(* the state record written, unless a read or the state write fails; it    *)
(* ends as completed when its standard output can print U+2713.            *)
(***************************************************************************)
C12_UnboundedPolling ==
    /\ [] C12_PollsUntilAddress
    /\ [] ((op = "apply" /\ pc = "done") => AddressReported /\ RecordWritten)
    /\ (op = "apply" /\ pc = "poll")
         ~> \/ /\ RecordWritten
               /\ pc = (IF PrintsCheckMark(stdout) THEN "done" ELSE "failed")
            \/ (pc = "failed" /\ err.kind \in {"ReadError", "OSError"})

\* apply is still polling after more not-ready reads than the trace records
C12_Witness ==
    /\ op = "apply"
    /\ pc = "poll"
    /\ NotReadyReads(trace) = MaxPolls
    /\ Len(trace) = MaxPolls + 2
    /\ tick = (MaxPolls + 1) % 2

\* "an apply that polls leaves the loop" does not hold of SpecProgress, where
\* the API is free never to report an address: the loop of not-ready reads
\* goes on for ever
C12_PollingEnds == (op = "apply" /\ pc = "poll") ~> (pc # "poll")

(***************************************************************************)
(* C13: when a destroy that loaded a state record has failed with the      *)
(* unsupported-provider, missing-token or undefined-variable error or with *)
(* a failed remote delete, the state file is exactly what it was and a     *)
(* load still returns the record with the same identifier; whatever the    *)
(* error of a failed destroy, the state file is what it was; in every      *)
(* destroy, a state file that differs from the one found was preceded by   *)
(* a successful remote delete of the recorded identifier.                  *)
(***************************************************************************)
C13_FailedDestroyKeepsState ==
    /\ ( /\ Loaded
         /\ pc = "failed"
         /\ err.kind \in {"UnsupportedProvider", "NoToken", "UndefinedVariable", "HTTPError"} )
       => /\ stateFile = pre.stateFile
          /\ stateFile.status = "ok"
          /\ load_state_file(stateFile) = [raised |-> FALSE, value |-> state_info]
          /\ FileAttrs(stateFile).id = state_info["id"]
          /\ EventsOf(trace, "remove") = {}
          /\ \A i \in EventsOf(trace, "delete") : ~trace[i].ok
          /\ remote = pre.remote
    /\ (op = "destroy" /\ pc = "failed") => stateFile = pre.stateFile
    /\ (op = "destroy" /\ stateFile # pre.stateFile)
       => /\ pc = "done"
          /\ trace[Len(trace)].ev = "remove"
          /\ trace[Len(trace) - 1].ev = "delete"
          /\ trace[Len(trace) - 1].ok
          /\ trace[Len(trace) - 1].req = FileAttrs(pre.stateFile).id

\* the remote delete of a destroy has failed and the record is still there
C13_Witness ==
    /\ Loaded
    /\ pc = "failed"
    /\ err = Error("HTTPError")
    /\ doc = DocScenario
    /\ FileAttrs(stateFile).id = Str(FirstId)
    /\ FirstId \in remote
    /\ stateFile = pre.stateFile

\* the names of the variable blocks and the keys of all blocks of d
VariableNames(d) == {Unquoted(d[i].STRING[1]) : i \in BlocksOf(d, "variable")}
Keys(d) == UNION { {d[i].body[j].IDENTIFIER : j \in 1..Len(d[i].body)} : i \in 1..Len(d) }
\* the tree walk of the running invocation has visited every block
Interpreted == op # "none" /\ pos > Len(doc)

(***************************************************************************)
(* C14: after the interpretation of a document, a variable with a default  *)
(* holds the value of the last default declared under its name, the token  *)
(* expression is that of the last token key of a provider block, and each  *)
(* attribute of the resource config holds the value of the last            *)
(* declaration of its key in a digitalocean_droplet block, in document     *)
(* order.                                                                  *)
(***************************************************************************)
C14_LastWriteWins ==
    Interpreted =>
        /\ \A n \in VariableNames(doc) :
             Defaults(doc, n) # {} =>
                /\ n \in DOMAIN listener.variables
                /\ listener.variables[n] = Unquoted(ExprAt(doc, LastOf(Defaults(doc, n))))
        /\ Tokens(doc) # {} =>
             listener.provider_token_expr = ExprAt(doc, LastOf(Tokens(doc)))
        /\ \A k \in Keys(doc) :
             Attrs(doc, k) # {} =>
                /\ k \in DOMAIN listener.droplet_config
                /\ listener.droplet_config[k] = Unquoted(ExprAt(doc, LastOf(Attrs(doc, k))))

\* the document with every declaration repeated has been interpreted
C14_Witness ==
    /\ Interpreted
    /\ doc = DocDuplicates
    /\ listener.variables = (T_token :> T_xyz)
    /\ listener.provider_token_expr = VarRef(T_token)
    /\ listener.droplet_config["name"] = T_y
    /\ listener.droplet_config["region"] = T_text
    /\ token = T_xyz

\* the last token expression of d is a reference to a variable without default
UndefinedReference(d) ==
    /\ Tokens(d) # {}
    /\ LET e == ExprAt(d, LastOf(Tokens(d)))
       IN /\ SubSeq(e, 1, Len(VAR_PREFIX)) = VAR_PREFIX
          /\ Defaults(d, SubSeq(e, Len(VAR_PREFIX) + 1, Len(e))) = {}

(***************************************************************************)
(* C15: for a document with neither a usable token (no token key, or a     *)
(* reference to a variable without default) nor a digitalocean_droplet     *)
(* block, apply never reaches the resource check and never fails with the  *)
(* missing-resource error; its provider blocks being digitalocean blocks,  *)
(* it fails with the missing-token error when there is no token key and    *)
(* with the undefined-variable error otherwise.                            *)
(***************************************************************************)
C15_TokenBeforeResource ==
    ( /\ op = "apply"
      /\ NoMatchingResource(doc)
      /\ (Tokens(doc) = {} \/ UndefinedReference(doc)) )
    => /\ pc \in {"walk", "failed"}
       /\ err.kind # "MissingResource"
       /\ (pc = "failed" /\ SupportedProviders(doc)) =>
            /\ Len(trace) = 1
            /\ trace[1].ev = "resolve"
            /\ ~trace[1].ok
            /\ err.kind = IF Tokens(doc) = {} THEN "NoToken" ELSE "UndefinedVariable"

\* the apply of the document with an undefined token variable and no
\* matching resource has failed
C15_Witness ==
    /\ op = "apply"
    /\ doc = DocUndefinedNoResource
    /\ pc = "failed"
    /\ err = [kind |-> "UndefinedVariable", name |-> T_other]
    /\ listener.droplet_config = << >>

\* the outcome of the resolve_token call of the running invocation, as logged,
\* is the outcome of a call on the listener as it is now
SameOutcomeAgain ==
    EventsOf(trace, "resolve") # {} =>
        LET r == resolve_token(listener)
        IN /\ trace[1].req = listener.provider_token_expr
           /\ trace[1].ok = ~r.raised
           /\ trace[1].ret = r.value
           /\ ~r.raised => token = r.value
           /\ r.raised => err = [kind |-> r.error, name |-> r.name]

(***************************************************************************)
(* C16: the step that calls resolve_token leaves the variable table, the   *)
(* token expression and the resource config of the listener unchanged,     *)
(* and a second call on the listener, at any later point of the            *)
(* invocation, yields the outcome of the first: the same value or the      *)
(* same error.                                                             *)
(***************************************************************************)
C16_ResolveIsPure ==
    /\ [][(pc = "walk" /\ pos > Len(doc)) => listener' = listener]_vars
    /\ [] SameOutcomeAgain

\* the token of the scenario document has been resolved through the variable
\* table, which is still in place
C16_Witness ==
    /\ doc = DocScenario
    /\ pc = "check"
    /\ trace[1].ev = "resolve"
    /\ trace[1].ret = T_abc123
    /\ listener.variables = (T_token :> T_abc123)
    /\ listener.provider_token_expr = VarRef(T_token)

\* the errors of apply that are raised before save_state_file is called
ErrorsBeforeWrite ==
    {"UnsupportedProvider", "NoToken", "UndefinedVariable", "MissingResource",
     "KeyError", "HTTPError", "ReadError"}

(***************************************************************************)
(* C17: as long as apply has not called save_state_file, and so when it    *)
(* has failed in the walk, in the token resolution, in the resource check, *)
(* in the create or in the poll, the state file is exactly what it was     *)
(* when the invocation started: absent if it was absent, the same record   *)
(* if there was one.                                                       *)
(***************************************************************************)
C17_FailedApplyKeepsState ==
    op = "apply" =>
        /\ EventsOf(trace, "write") = {} => stateFile = pre.stateFile
        /\ (pc = "failed" /\ err.kind \in ErrorsBeforeWrite) =>
              /\ EventsOf(trace, "write") = {}
              /\ stateFile = pre.stateFile
        /\ (pc = "failed" /\ err.kind \notin ErrorsBeforeWrite) =>
              /\ err.kind \in {"OSError", "UnicodeEncodeError"}
              /\ EventsOf(trace, "write") # {}

\* an apply has failed in its poll and the record of the earlier apply is
\* still in the state file
C17_Witness ==
    /\ op = "apply"
    /\ pc = "failed"
    /\ err = Error("ReadError")
    /\ droplet_id = FirstId + 1
    /\ pre.stateFile.status = "ok"
    /\ stateFile = pre.stateFile
    /\ FileAttrs(stateFile).id = Str(FirstId)

\* the digitalocean_droplet blocks of d declare some attribute
SomeAttribute(d) == \E k \in Keys(d) : Attrs(d, k) # {}
\* the attributes among name, region, size and image that d does not declare
MissingAttributes(d) == {i \in 1..Len(RequiredKeys) : Attrs(d, RequiredKeys[i]) = {}}

(***************************************************************************)
(* C18: when the digitalocean_droplet blocks of the document declare some  *)
(* attribute but not all of name, region, size and image, apply sends no   *)
(* create request, changes nothing at the provider, writes no state record *)
(* and never completes; when its token resolved, it fails on the payload   *)
(* with the key error of the first missing attribute, the token resolution *)
(* being its only call.                                                    *)
(***************************************************************************)
C18_MissingAttribute ==
    (op = "apply" /\ SomeAttribute(doc) /\ MissingAttributes(doc) # {}) =>
        /\ EventsOf(trace, "create") = {}
        /\ RemoteCalls(trace) = {}
        /\ EventsOf(trace, "write") = {}
        /\ remote = pre.remote
        /\ stateFile = pre.stateFile
        /\ pc \in {"walk", "check", "create", "failed"}
        /\ (pc = "failed" /\ trace # << >> /\ trace[1].ok) =>
             /\ Len(trace) = 1
             /\ err = [kind |-> "KeyError",
                       name |-> << RequiredKeys[CHOOSE i \in MissingAttributes(doc) :
                                      \A j \in MissingAttributes(doc) : i <= j] >>]

\* the apply of the document without a region has failed on the payload
C18_Witness ==
    /\ op = "apply"
    /\ doc = DocWithout("region")
    /\ pc = "failed"
    /\ err = [kind |-> "KeyError", name |-> << "region" >>]
    /\ token = T_xyz
    /\ DOMAIN listener.droplet_config = {"name", "size", "image"}

====
